---- MODULE Spec2Model ----
(***************************************************************************)
(* The event bus (Events), the plugin base (System) and the command        *)
(* registry (CommandManager / Command) of crown-bot-youtube.                *)
(*                                                                         *)
(* The program is single threaded: a call of on, emit, add or parse runs   *)
(* to completion, nested calls included, before anything else happens.     *)
(* Each call is therefore one action; what it did, in order, is kept in    *)
(* last.tr (log lines, handler entries and exits, replies) and how it      *)
(* ended in last.out (a returned value or a raised one).                    *)
(***************************************************************************)
EXTENDS Integers, Sequences, FiniteSets, TLC

VARIABLES
    events,     \* Events.events: the own properties of the hashtable, name -> Event
    managers,   \* the CommandManagers constructed so far: id -> [commands, prefix]
    pending,    \* the promises not settled yet: build_commands' import()s and
                \* the async actions that were started
    systems,    \* the plugin Systems constructed so far: id -> own fields
    last,       \* the latest call: what was called, with what, its trace and outcome
    firstOn,    \* history: per event name, the action of the first on call for it
    lastAdd,    \* history: per manager and name, the Command of the latest add
    journal     \* history of the media player: the play calls made, the URLs
                \* accepted, taken from the queue and streamed, in order

vars == <<events, managers, pending, systems, last, firstOn, lastAdd, journal>>

-----------------------------------------------------------------------------
(* Bounds of the model.                                                     *)

\* Longest argument list handed to emit, and most words after a command name.
MaxArgs == 2
\* Depth of nested emit calls at which the engine's call stack is exhausted.
MaxDepth == 3
\* Longest text after the prefix that is tokenized on its own.
MaxText == 5

-----------------------------------------------------------------------------
(* JavaScript values.                                                       *)

Undefined == [t |-> "undefined"]
Null == [t |-> "null"]
\* A string is kept as the sequence of the pieces it is concatenated from.
Str(parts) == [t |-> "string", parts |-> parts]
Array(items) == [t |-> "array", items |-> items]
ErrorObj(name, message) == [t |-> "Error", name |-> name, message |-> message]
\* What a property read finds on Object.prototype when the object has no own
\* property of that name (Object.prototype.toString, a function).
Inherited == [t |-> "function", native |-> "Object.prototype.toString"]

\* The keys every object literal {} inherits from Object.prototype (one of
\* them is enough to stand for all): as an event name, and as the characters
\* of a command name.
ObjectPrototypeKeys == {"toString"}
toStringChars == <<"t", "o", "S", "t", "r", "i", "n", "g">>
ObjectPrototypeCharKeys == {toStringChars}

\* table[key] on a Hashtable<T> created as {}: an own property, else what
\* Object.prototype holds under that key, else undefined.
Get(table, key, inheritedKeys) ==
    IF key \in DOMAIN table THEN table[key]
    ELSE IF key \in inheritedKeys THEN Inherited
    ELSE Undefined

\* table[key] = value.
Put(table, key, value) ==
    [k \in DOMAIN table \cup {key} |-> IF k = key THEN value ELSE table[k]]

EmptyTable == [k \in {} |-> Undefined]

\* error.toString(): an Error gives "<name>: <message>", a string itself;
\* null and undefined have no properties, the read raises a TypeError.
HasToString(v) == v.t \notin {"undefined", "null"}
toString(v) ==
    IF v.t = "Error" THEN Str(<<v.name, ": ", v.message>>)
    ELSE IF v.t = "string" THEN v
    ELSE Str(<<"[object]">>)

\* v.key of an object: undefined when the object has no such property.
\* (Reading a property of undefined or null raises; the callers test that.)
Nullish(v) == v.t \in {"undefined", "null"}
Prop(v, key) == IF key \in DOMAIN v THEN v[key] ELSE Undefined

\* args[i] of a parameter list: undefined when fewer arguments were passed.
Arg(args, i) == IF i <= Len(args) THEN args[i] ELSE Undefined

-----------------------------------------------------------------------------
(* Outcomes and the trace of a call.                                        *)

\* st is the program state threaded through a call:
\*   [events, managers, pending, systems, tr], tr the trace so far.
Return(st, v) == [st |-> st, out |-> [k |-> "return", v |-> v]]
Raise(st, v) == [st |-> st, out |-> [k |-> "raise", v |-> v]]
Log(st, entry) == [st EXCEPT !.tr = Append(@, entry)]

\* The end of a call r, noted in the trace with how it ended.
Ended(r, entry) ==
    [st |-> Log(r.st, entry @@ [out |-> r.out]), out |-> r.out]
\* A call made as a statement: its value is dropped, what it raises is not.
Statement(r) == IF r.out.k = "return" THEN Return(r.st, Undefined) ELSE r

\* logger.warn / logger.error / logger.log / logger.debug
LoggerEntry(level, what) == [e |-> "logger", level |-> level, what |-> what]

-----------------------------------------------------------------------------
(* Strings as sequences of characters: what parse does to message.content.  *)

\* The characters String.prototype.trim removes (blank and tab stand for
\* all white space); split(/ +/) splits on blanks only.
WhiteSpace == {" ", "\t"}

\* A prefix test that compares the lengths only.
startsWith_length_only(s, p) == Len(p) <= Len(s)
\* s.startsWith(p)
startsWith(s, p) == Len(p) <= Len(s) /\ SubSeq(s, 1, Len(p)) = p

\* s.slice(n), 0 <= n
slice(s, n) == SubSeq(s, n + 1, Len(s))

\* s.trim()
RECURSIVE trimStart(_)
trimStart(s) == IF s # <<>> /\ Head(s) \in WhiteSpace THEN trimStart(Tail(s)) ELSE s
RECURSIVE trimEnd(_)
trimEnd(s) ==
    IF s # <<>> /\ s[Len(s)] \in WhiteSpace THEN trimEnd(SubSeq(s, 1, Len(s) - 1)) ELSE s
trim(s) == trimEnd(trimStart(s))

\* s.split(/ +/): the pieces between the maximal runs of blanks; a string
\* without a blank (the empty one too) is its own single piece.
Blanks(s) == {i \in DOMAIN s : s[i] = " "}
RECURSIVE skipBlanks(_)
skipBlanks(s) == IF s # <<>> /\ Head(s) = " " THEN skipBlanks(Tail(s)) ELSE s
\* s.split(' '): every single blank separates, a run of blanks gives empty pieces.
RECURSIVE split_single_blank(_)
split_single_blank(s) ==
    IF Blanks(s) = {} THEN <<s>>
    ELSE LET i == CHOOSE k \in Blanks(s) : \A j \in Blanks(s) : k <= j
         IN  <<SubSeq(s, 1, i - 1)>> \o split_single_blank(SubSeq(s, i + 1, Len(s)))
RECURSIVE split(_)
split(s) ==
    IF Blanks(s) = {} THEN <<s>>
    ELSE LET i == CHOOSE k \in Blanks(s) : \A j \in Blanks(s) : k <= j
         IN  <<SubSeq(s, 1, i - 1)>> \o split(skipBlanks(SubSeq(s, i, Len(s))))

-----------------------------------------------------------------------------
(* lib/commands/command.ts: Command and CommandManager.                     *)

\* new Command(name, description, callable); the description plays no part.
\* A callable is a closure; its kind says what its body does:
\*   "reply"  (events, message) => { message.reply('Example Reply!') }
\*   "send"   (events, message) => { message.channel.send('Example Message Sent!') }
\*   "throw"  () => { throw thrown }
\*   "async"  async () => { await work; throw thrown }
Callable(kind, thrown) == [kind |-> kind, thrown |-> thrown]
Command(name, callable) == [t |-> "Command", name |-> name, action |-> callable]

\* A message of the chat platform: its text and whether its author is a bot.
Message(content, bot) == [t |-> "message", content |-> content, bot |-> bot]

\* The reference to the Events object every System holds (this.events).
EventsRef == [t |-> "Events", id |-> "events"]

\* message.reply(text), message.channel.send(text)
reply(st, message, text) == Log(st, [e |-> "reply", message |-> message, text |-> text])
send(st, message, text) == Log(st, [e |-> "send", message |-> message, text |-> text])

\* What the call of an async function returns.
Promise == [t |-> "Promise"]

\* An execute that waits for the action to end: what an async action fails
\* with is raised by the call.
Command_execute_awaited(st, command, event_manager, message, args) ==
    IF command.t # "Command"
    THEN Raise(st, ErrorObj("TypeError", "this.commands[command].execute is not a function"))
    ELSE
    LET entered == Log(st, [e |-> "action", command |-> command, events |-> event_manager,
                            message |-> message, args |-> args])
    IN  CASE command.action.kind = "reply" ->
                Return(reply(entered, message, Str(<<"Example Reply!">>)), Undefined)
          [] command.action.kind = "send" ->
                Return(send(entered, message, Str(<<"Example Message Sent!">>)), Undefined)
          [] command.action.kind \in {"throw", "async"} ->
                Raise(entered, command.action.thrown)

\* Command.execute(event_manager, message, args):
\* this.action(event_manager, message, ...args). A value that is not a
\* Command has no execute method: calling it raises a TypeError. The call
\* of an async action returns its promise at the first await; the promise
\* is dropped and stays pending.
Command_execute(st, command, event_manager, message, args) ==
    IF command.t # "Command"
    THEN Raise(st, ErrorObj("TypeError", "this.commands[command].execute is not a function"))
    ELSE
    LET entered == Log(st, [e |-> "action", command |-> command, events |-> event_manager,
                            message |-> message, args |-> args])
    IN  CASE command.action.kind = "reply" ->
                Return(reply(entered, message, Str(<<"Example Reply!">>)), Undefined)
          [] command.action.kind = "send" ->
                Return(send(entered, message, Str(<<"Example Message Sent!">>)), Undefined)
          [] command.action.kind = "throw" ->
                Raise(entered, command.action.thrown)
          [] command.action.kind = "async" ->
                Return([entered EXCEPT !.pending =
                            @ \cup {[action |-> command.action, message |-> message]}],
                       Promise)

\* add in the manner of Events.on: a name already taken is left as it is.
add_keep_first(st, m, command) ==
    LET called == Log(st, [e |-> "call", op |-> "add", mgr |-> m, command |-> command])
    IN  IF Nullish(command)
        THEN Raise(called, ErrorObj("TypeError", "Cannot read properties (reading 'name')"))
        ELSE IF Prop(command, "name") = Undefined
                  \/ command.name.parts \in DOMAIN st.managers[m].commands
        THEN Return(called, Undefined)
        ELSE Return(Log([called EXCEPT !.managers[m].commands =
                                            Put(@, command.name.parts, command)],
                        LoggerEntry("debug", command.name)),
                    Undefined)

\* A variant of add that starts the table afresh on every store.
add_replace_all(st, m, command) ==
    LET called == Log(st, [e |-> "call", op |-> "add", mgr |-> m, command |-> command])
    IN  IF Nullish(command)
        THEN Raise(called, ErrorObj("TypeError", "Cannot read properties (reading 'name')"))
        ELSE IF Prop(command, "name") = Undefined
        THEN Return(called, Undefined)
        ELSE Return(Log([called EXCEPT !.managers[m].commands =
                                            Put(EmptyTable, command.name.parts, command)],
                        LoggerEntry("debug", command.name)),
                    Undefined)

\* CommandManager.add(command)
add(st, m, command) ==
    LET called == Log(st, [e |-> "call", op |-> "add", mgr |-> m, command |-> command])
    IN  IF Nullish(command)
        THEN Raise(called, ErrorObj("TypeError", "Cannot read properties (reading 'name')"))
        ELSE IF Prop(command, "name") = Undefined
        THEN Return(called, Undefined)
        ELSE Return(Log([called EXCEPT !.managers[m].commands =
                                            Put(@, command.name.parts, command)],
                        LoggerEntry("debug", command.name)),
                    Undefined)

\* The body of parse's try block after the log line: args is an array
\* either way, and both branches make the same single call.
parse_dispatch_twice(st, command, message, args) ==
    Command_execute(Command_execute(st, command, EventsRef, message, args).st,
                    command, EventsRef, message, args)
parse_dispatch(st, command, message, args) ==
    IF (DOMAIN args = 1 .. Len(args)) = TRUE
    THEN Command_execute(st, command, EventsRef, message, args)
    ELSE Command_execute(st, command, EventsRef, message, args)

\* The try ... catch of parse around the execution r of the command:
\* catch (error) { logger.error(error); message.reply(error.toString()); }
parse_catch(r, message) ==
    IF r.out.k = "return" THEN Return(r.st, Undefined)
    ELSE IF HasToString(r.out.v)
    THEN Return(reply(Log(r.st, LoggerEntry("error", r.out.v)), message, toString(r.out.v)),
                Undefined)
    ELSE Raise(Log(r.st, LoggerEntry("error", r.out.v)),
               ErrorObj("TypeError", "Cannot read properties (reading 'toString')"))

\* CommandManager.parse(message)
parse(st, m, message) ==
    LET this == st.managers[m]
    IN  IF Nullish(message)
        THEN Raise(st, ErrorObj("TypeError", "Cannot read properties (reading 'content')"))
        ELSE IF "content" \notin DOMAIN message
        THEN Raise(st, ErrorObj("TypeError", "Cannot read properties (reading 'startsWith')"))
        ELSE IF startsWith(message.content, this.prefix) = FALSE \/ message.bot
        THEN Return(st, Undefined)
        ELSE
        LET pieces == split(trim(slice(message.content, Len(this.prefix))))
            \* args.shift(): undefined when the array is empty
            shifted == pieces # <<>>
            command == Head(pieces)
            args == [i \in 1 .. Len(pieces) - 1 |-> Str(pieces[i + 1])]
            found == Get(this.commands, command, ObjectPrototypeCharKeys)
        IN  IF shifted = FALSE \/ found = Undefined
            THEN Return(st, Undefined)
            ELSE
            parse_catch(parse_dispatch(
                            Log(st, LoggerEntry("log", <<"[COMMANDS] Executing: ", command>>)),
                            found, message, args),
                        message)

-----------------------------------------------------------------------------
(* lib/events/events.ts: Event and Events.                                  *)

\* new Event(name, action)
Event(name, action) == [t |-> "Event", name |-> name, action |-> action]

\* The handlers the environment registers. A handler is a closure; its kind
\* says what its body does:
\*   "args"   (...args) => args              returns what it was given
\*   "emit"   (...args) => events.emit(target, ...args)
\*   "on"     () => { events.on(target, inner) }
\*   "throw"  () => { throw new Error('boom') }
\* and the three closures a CommandManager registers (id is the manager):
\*   "commands::parse"       (message) => { this.parse(message) }
\*   "commands::add"         (command) => { this.add(command) }
\*   "commands::get-prefix"  () => { return this.prefix }
Handler(kind, id, target) == [kind |-> kind, id |-> id, target |-> target]
InnerHandler == Handler("args", "inner", "-")

RangeError == ErrorObj("RangeError", "Maximum call stack size exceeded")

\* Events.check(event_name)
check(evs, event_name) == Get(evs, event_name, ObjectPrototypeKeys) # Undefined

\* A variant of on that binds the name again when it is bound already.
on_rebind(st, event_name, action, depth) ==
    LET called == Log(st, [e |-> "call", op |-> "on", name |-> event_name,
                           action |-> action, depth |-> depth])
    IN  Return([called EXCEPT !.events = Put(@, event_name, Event(event_name, action))],
               Undefined)

\* Events.on(event_name, action)
on(st, event_name, action, depth) ==
    LET called == Log(st, [e |-> "call", op |-> "on", name |-> event_name,
                           action |-> action, depth |-> depth])
    IN  IF Get(st.events, event_name, ObjectPrototypeKeys) # Undefined
        THEN Return(Log(called, LoggerEntry("warn",
                        <<"[EVENTS] Duplicate event_name: ", event_name>>)), Undefined)
        ELSE Return([called EXCEPT !.events = Put(@, event_name, Event(event_name, action))],
                    Undefined)

RECURSIVE emit(_, _, _, _)
RECURSIVE Apply(_, _, _, _)

\* Event.execute(args): this._action(...args). A value that is not an Event
\* has no execute method: calling it raises a TypeError.
Event_execute(st, event, args, depth) ==
    IF event.t = "Event"
    THEN Apply(st, event.action, args, depth)
    ELSE Raise(st, ErrorObj("TypeError", "event.execute is not a function"))

\* emit as a multi-subscriber bus would do it: after the handler bound to
\* the name, a handler bound to another name is run too.
AlsoOther(r, event_name, args, depth) ==
    IF r.out.k = "return" /\ event_name \in DOMAIN r.st.events
                         /\ DOMAIN r.st.events \ {event_name} # {}
    THEN [st |-> Event_execute(r.st,
                               r.st.events[CHOOSE n \in DOMAIN r.st.events \ {event_name} : TRUE],
                               args, depth).st,
          out |-> r.out]
    ELSE r
emit_broadcast(st, event_name, args, depth) ==
    LET called == Log(st, [e |-> "call", op |-> "emit", name |-> event_name,
                           args |-> args, depth |-> depth])
        event == Get(st.events, event_name, ObjectPrototypeKeys)
    IN  Ended(AlsoOther(IF event # Undefined
                        THEN Event_execute(called, event, args, depth)
                        ELSE Return(Log(called, LoggerEntry("error",
                                <<"No event named: ", event_name, " was found.">>)), Undefined),
                        event_name, args, depth),
              [e |-> "done", op |-> "emit", name |-> event_name, depth |-> depth])

\* emit with the return statement lost: the handler runs, its value is dropped.
emit_no_return(st, event_name, args, depth) ==
    LET called == Log(st, [e |-> "call", op |-> "emit", name |-> event_name,
                           args |-> args, depth |-> depth])
        event == Get(st.events, event_name, ObjectPrototypeKeys)
    IN  Ended(Statement(IF event # Undefined
                        THEN Event_execute(called, event, args, depth)
                        ELSE Return(Log(called, LoggerEntry("error",
                                <<"No event named: ", event_name, " was found.">>)), Undefined)),
              [e |-> "done", op |-> "emit", name |-> event_name, depth |-> depth])

\* Events.emit(event_name, ...args)
emit(st, event_name, args, depth) ==
    LET called == Log(st, [e |-> "call", op |-> "emit", name |-> event_name,
                           args |-> args, depth |-> depth])
        event == Get(st.events, event_name, ObjectPrototypeKeys)
    IN  Ended(IF event # Undefined
              THEN Event_execute(called, event, args, depth)
              ELSE Return(Log(called, LoggerEntry("error",
                              <<"No event named: ", event_name, " was found.">>)), Undefined),
              [e |-> "done", op |-> "emit", name |-> event_name, depth |-> depth])

\* A call of a registered action with the arguments spread: the body of the
\* closure, run to its end. A chain of emits deeper than the call stack
\* raises the engine's RangeError.
Apply(st, action, args, depth) ==
    IF depth >= MaxDepth THEN Raise(st, RangeError)
    ELSE
    LET entered == Log(st, [e |-> "enter", action |-> action, args |-> args,
                            depth |-> depth])
    IN  Ended(CASE action.kind = "args" -> Return(entered, Array(args))
                [] action.kind = "emit" -> emit(entered, action.target, args, depth + 1)
                [] action.kind = "on" -> on(entered, action.target, InnerHandler, depth + 1)
                [] action.kind = "throw" -> Raise(entered, ErrorObj("Error", "boom"))
                [] action.kind = "commands::parse" ->
                     Statement(parse(entered, action.id, Arg(args, 1)))
                [] action.kind = "commands::add" ->
                     Statement(add(entered, action.id, Arg(args, 1)))
                [] action.kind = "commands::get-prefix" ->
                     Return(entered, Str(entered.managers[action.id].prefix)),
              [e |-> "exit", action |-> action, depth |-> depth])

-----------------------------------------------------------------------------
(* System (plugin base) and the construction of a CommandManager.           *)

\* The System object itself, as a value handed over the bus.
SystemRef(id) == [t |-> "System", id |-> id]

\* A System constructor that registers with the serializer whatever the flag.
System_constructor_always(st, self, name, serialize) ==
    Statement(emit(Log(st, LoggerEntry("log", <<"[SYSTEM] Creating ", name, " System.">>)),
                   "serialize::register", <<Str(<<name>>), self>>, 0))

\* System.constructor(events, name, serialize = false)
System_constructor(st, self, name, serialize) ==
    LET logged == Log(st, LoggerEntry("log", <<"[SYSTEM] Creating ", name, " System.">>))
    IN  IF serialize = TRUE
        THEN Statement(emit(logged, "serialize::register", <<Str(<<name>>), self>>, 0))
        ELSE Return(logged, Undefined)

\* A number as a value.
Number(n) == [t |-> "number", v |-> n]

\* The fields of a plugin once its constructor has ended: super(...) has
\* ended as base and left this.events and this.name, the plugin then sets
\* this.state = 0. A constructor that raises leaves no object behind.
Plugin_fields_on(base, s, name, registry) ==
    IF base.out.k # "return" THEN base
    ELSE Return([base.st EXCEPT !.systems =
                    Put(@, s, [events |-> registry, name |-> Str(<<name>>), state |-> Number(0)])],
                Undefined)
Plugin_fields(base, s, name) == Plugin_fields_on(base, s, name, EventsRef)

\* new ExamplePlugin(events), a class that extends System, with the
\* serialize flag it hands to super(...).
Plugin_constructor(st, s, name, serialize) ==
    Plugin_fields(System_constructor(st, SystemRef(s), name, serialize), s, name)

\* An object literal as a value: its own fields.
Object(fields) == [t |-> "object", fields |-> fields]
\* delete obj[key]: nothing happens when obj has no such field.
Delete(fields, key) == [k \in DOMAIN fields \ {key} |-> fields[k]]

\* System.serialize(): const clone = { ...this }; delete clone.event_manager;
\* return clone.
serialize(st, s) == Return(st, Object(Delete(st.systems[s], "event_manager")))

\* System.deserialize(obj): Object.keys(obj).forEach(k => this[k] = obj[k])
Assign(fields, obj) ==
    [k \in DOMAIN fields \cup DOMAIN obj |-> IF k \in DOMAIN obj THEN obj[k] ELSE fields[k]]
deserialize(st, s, obj) ==
    Return([st EXCEPT !.systems = Put(@, s, Assign(st.systems[s], obj.fields))], Undefined)

\* A boolean as a value.
Boolean(b) == [t |-> "boolean", v |-> b]

\* path.join(root, dir) of a root without a trailing separator and a
\* relative dir: the two with a separator between them; a separator at the
\* end of dir is kept, none is added.
join(root, dir) == root \o <<"/">> \o dir

\* import(this.commands_dir + file) finds the file of the directory when
\* commands_dir ends with the separator; without it the concatenation names
\* a sibling of the directory, which does not exist.
Resolves(commands_dir) == commands_dir[Len(commands_dir)] = "/"

\* CommandManager.build_commands(): one import() is started per .js file of
\* the commands directory (files, what readdirSync lists); none has settled
\* when the method returns.
build_commands(st, m, files) ==
    Log([st EXCEPT !.pending =
            @ \cup {[mgr |-> m, file |-> f, dir |-> st.managers[m].commands_dir] : f \in files}],
        LoggerEntry("debug", files))

\* The callback build_commands gives to import(...).then.
import_then(st, m, command) ==
    IF command = Undefined \/ command.default = Undefined
    THEN Return(st, Undefined)
    ELSE add(st, m, command.default)

\* A promise of build_commands settles: the module is handed to the
\* callback, or the import is rejected and the callback never runs. What
\* the promise is rejected with, by the import or by the callback raising,
\* nobody handles.
import_settled(st, p, module) ==
    IF Resolves(p.dir)
    THEN import_then(st, p.mgr, module)
    ELSE Raise(st, ErrorObj("Error", "Cannot find module"))

\* A constructor that binds the add closure to 'commands::parse' and the
\* parse closure to 'commands::add'.
CommandManager_fields_swapped(base, m, command_config) ==
    IF base.out.k # "return" THEN base
    ELSE
    Return(on(on(on(build_commands(
                        [base.st EXCEPT !.managers =
                            Put(@, m, [commands |-> EmptyTable,
                                       commands_dir |-> join(command_config.root,
                                                             command_config.commands_dir),
                                       prefix |-> command_config.prefix])],
                        m, command_config.files),
                    "commands::parse", Handler("commands::add", m, "-"), 0).st,
                 "commands::add", Handler("commands::parse", m, "-"), 0).st,
              "commands::get-prefix", Handler("commands::get-prefix", m, "-"), 0).st,
           Undefined)

\* CommandManager.constructor(events, command_config), after super(...)
\* has ended as base: the fields, build_commands(), the three events.
CommandManager_fields(base, m, command_config) ==
    IF base.out.k # "return" THEN base
    ELSE
    Return(on(on(on(build_commands(
                        [base.st EXCEPT !.managers =
                            Put(@, m, [commands |-> EmptyTable,
                                       commands_dir |-> join(command_config.root,
                                                             command_config.commands_dir),
                                       prefix |-> command_config.prefix])],
                        m, command_config.files),
                    "commands::parse", Handler("commands::parse", m, "-"), 0).st,
                 "commands::add", Handler("commands::add", m, "-"), 0).st,
              "commands::get-prefix", Handler("commands::get-prefix", m, "-"), 0).st,
           Undefined)

\* CommandManager.constructor(events, command_config)
CommandManager_constructor(st, m, command_config) ==
    CommandManager_fields(System_constructor(st, SystemRef(m), "CommandManager", FALSE),
                          m, command_config)

-----------------------------------------------------------------------------
(* The media player (Youtube): a System with a queue of URLs, a player      *)
(* state and a leave timer. What it awaits or has scheduled is in pending:  *)
(* the join of a voice channel, the audio being played (until its 'end')    *)
(* and the timers set.                                                      *)

Youtube == "youtube"

\* The URLs ytdl.validateURL accepts, and a text it does not accept.
ValidUrls == {Str(<<"https://youtu.be/a">>), Str(<<"https://youtu.be/b">>)}
InvalidUrls == {Str(<<"song">>)}
validateURL(url) == url \in ValidUrls

\* A voice channel, a guild member (in a voice channel or in none) and a
\* message of the member, or a direct message (member is null).
VoiceChannel(name, joinable) == [t |-> "VoiceChannel", name |-> name, joinable |-> joinable]
GuildMember(channel) == [t |-> "GuildMember", voice |-> [channel |-> channel]]
PlayMessage(id, member) == [t |-> "message", id |-> id, member |-> member]

\* The object setTimeout returns: one no earlier call has returned.
Timeout(n) == [t |-> "Timeout", n |-> n]
setTimeout(connection_timer) ==
    IF connection_timer.t = "null" THEN Timeout(1) ELSE Timeout(connection_timer.n + 1)

\* What is pending of each kind.
Timers(p) == {q \in p : "timer" \in DOMAIN q}
Joins(p) == {q \in p : "connect" \in DOMAIN q}
Audios(p) == {q \in p : "playing" \in DOMAIN q}

\* Youtube.set_leave_timer(channel)
set_leave_timer(st, channel) ==
    LET timer == setTimeout(st.systems[Youtube].connection_timer)
    IN  Log([st EXCEPT !.systems[Youtube].connection_timer = timer,
                       !.pending = @ \cup {[timer |-> timer, channel |-> channel]}],
            [e |-> "setTimeout", timer |-> timer])

\* Youtube.clear_timer(): clearTimeout of a timer that has fired or was
\* cleared does nothing; connection_timer keeps the object.
clear_timer(st) ==
    IF st.systems[Youtube].connection_timer.t = "null" THEN st
    ELSE Log([st EXCEPT !.pending =
                    @ \ {q \in Timers(@) : q.timer = st.systems[Youtube].connection_timer}],
             [e |-> "clearTimeout", timer |-> st.systems[Youtube].connection_timer])

\* Youtube.leave_channel(channel)
leave_channel(st, channel) ==
    Return(Log(Log(st, [e |-> "console", what |-> <<"[YOUTUBE] Leaving Channel: ", channel.name>>]),
               [e |-> "leave", channel |-> channel]),
           Undefined)

\* Youtube.find_video(query_or_url)
find_video(query_or_url) ==
    IF validateURL(query_or_url) = TRUE
    THEN [t |-> "Readable", url |-> query_or_url]
    ELSE Null

\* Youtube.connect(channel): the log line and channel.join(), whose promise
\* the caller awaits.
connect(st, message, channel, audio) ==
    [Log(st, LoggerEntry("log", <<"[YOUTUBE][VOICE] Connecting to ", channel.name>>))
        EXCEPT !.pending = @ \cup {[connect |-> channel, message |-> message, audio |-> audio]}]

\* Youtube.stream_audio after play_queue.shift() gave a URL and the state is
\* not 'stopped', up to the await.
stream_audio_url(st, message, channel, query_or_url) ==
    IF find_video(query_or_url) = Null
    THEN Return(reply(clear_timer(st), message,
                      Str(<<"Error 01: Invalid video link. Cannot search youtube at this time.">>)),
                Promise)
    ELSE Return(connect(clear_timer(st), message, channel, find_video(query_or_url)), Promise)

\* Youtube.stream_audio when the queue gave nothing or the state is 'stopped'.
stream_audio_exit(st, channel) ==
    Return([set_leave_timer(Log(st, LoggerEntry("log", <<"[YOUTUBE] Exiting Loop.">>)), channel)
                EXCEPT !.systems[Youtube].state = "idle"],
           Promise)

\* play_queue.shift(): the first URL is taken out, if there is one.
shift(st) ==
    IF st.systems[Youtube].play_queue = <<>> THEN st
    ELSE Log([st EXCEPT !.systems[Youtube].play_queue = Tail(@)],
             [e |-> "shift", url |-> Head(st.systems[Youtube].play_queue)])

\* A variant of stream_audio that leaves the leave timer alone.
stream_audio_keep_timer(st, message, channel) ==
    IF st.systems[Youtube].play_queue = <<>> \/ st.systems[Youtube].state = "stopped"
    THEN stream_audio_exit(shift(st), channel)
    ELSE IF find_video(Head(st.systems[Youtube].play_queue)) = Null
    THEN Return(reply(shift(st), message,
                      Str(<<"Error 01: Invalid video link. Cannot search youtube at this time.">>)),
                Promise)
    ELSE Return(connect(shift(st), message, channel,
                        find_video(Head(st.systems[Youtube].play_queue))), Promise)

\* A variant of stream_audio that takes the URL queued last.
stream_audio_newest(st, message, channel) ==
    LET queue == st.systems[Youtube].play_queue
    IN  IF queue = <<>> \/ st.systems[Youtube].state = "stopped"
        THEN stream_audio_exit(shift(st), channel)
        ELSE stream_audio_url(
                Log([st EXCEPT !.systems[Youtube].play_queue = SubSeq(queue, 1, Len(queue) - 1)],
                    [e |-> "shift", url |-> queue[Len(queue)]]),
                message, channel, queue[Len(queue)])

\* Youtube.stream_audio(message, channel), up to its await or its return.
stream_audio(st, message, channel) ==
    IF st.systems[Youtube].play_queue = <<>> \/ st.systems[Youtube].state = "stopped"
    THEN stream_audio_exit(shift(st), channel)
    ELSE stream_audio_url(shift(st), message, channel, Head(st.systems[Youtube].play_queue))

\* Youtube.stream_audio after the await: the channel is joined; the 'end'
\* listener is set and Youtube.play(connection, audio) starts the audio.
stream_audio_joined(st, joined) ==
    Return(Log([st EXCEPT !.pending = @ \cup {[playing |-> joined.audio, message |-> joined.message,
                                               channel |-> joined.connect]}],
               [e |-> "play", audio |-> joined.audio, channel |-> joined.connect]),
           Undefined)

\* The end of execute_queue: the URL is pushed and the loop is started when
\* none is running.
execute_queue_accept(st, message, channel, query_or_url) ==
    IF st.systems[Youtube].state \in {"idle", "stopped"}
    THEN stream_audio([st EXCEPT !.systems[Youtube].state = "isPlaying"], message, channel)
    ELSE Return(st, Promise)
push(st, message, query_or_url) ==
    reply([st EXCEPT !.systems[Youtube].play_queue = Append(@, query_or_url)],
          message, Str(<<"Added: ">> \o query_or_url.parts))

\* A variant of execute_queue that starts the loop whatever the state.
execute_queue_always(st, message, channel, query_or_url) ==
    IF query_or_url = Undefined
    THEN Return(reply(st, message, Str(<<"Usage: play <url>">>)), Promise)
    ELSE IF channel.t = "null"
    THEN Return(reply(st, message, Str(<<"Please join a Voice channel on this Server.">>)),
                Promise)
    ELSE IF channel.joinable = FALSE
    THEN Return(reply(st, message, Str(<<"Cannot join channel: ", channel.name>>)), Promise)
    ELSE stream_audio([push(st, message, query_or_url)
                            EXCEPT !.systems[Youtube].state = "isPlaying"], message, channel)

\* A variant of execute_queue that queues the URL before it looks at the
\* channel.
execute_queue_push_first(st, message, channel, query_or_url) ==
    IF query_or_url = Undefined
    THEN Return(reply(st, message, Str(<<"Usage: play <url>">>)), Promise)
    ELSE IF channel.t = "null"
    THEN Return(reply([st EXCEPT !.systems[Youtube].play_queue = Append(@, query_or_url)],
                      message, Str(<<"Please join a Voice channel on this Server.">>)),
                Promise)
    ELSE IF channel.joinable = FALSE
    THEN Return(reply(st, message, Str(<<"Cannot join channel: ", channel.name>>)), Promise)
    ELSE execute_queue_accept(push(st, message, query_or_url), message, channel, query_or_url)

\* Youtube.execute_queue(message, channel, query_or_url)
execute_queue(st, message, channel, query_or_url) ==
    IF query_or_url = Undefined
    THEN Return(reply(st, message, Str(<<"Usage: play <url>">>)), Promise)
    ELSE IF channel.t = "null"
    THEN Return(reply(st, message, Str(<<"Please join a Voice channel on this Server.">>)),
                Promise)
    ELSE IF channel.joinable = FALSE
    THEN Return(reply(st, message, Str(<<"Cannot join channel: ", channel.name>>)), Promise)
    ELSE execute_queue_accept(push(st, message, query_or_url), message, channel, query_or_url)

\* The action of the 'play' command: what Command.execute calls with the
\* message and the first word after the name.
play_action(st, message, query_or_url) ==
    IF message.member.t = "null"
    THEN Return(reply(st, message, Str(<<"Cannot stream in DMs.">>)), Promise)
    ELSE execute_queue(st, message, message.member.voice.channel, query_or_url)

\* The fields of a Youtube once super(...) has ended as base.
Youtube_fields(base) ==
    IF base.out.k # "return" THEN base
    ELSE Return([base.st EXCEPT !.systems =
                    Put(@, Youtube, [events |-> EventsRef, name |-> Str(<<"ExampleName">>),
                                     connection_timer |-> Null, play_queue |-> <<>>,
                                     state |-> "idle"])],
                Undefined)

-----------------------------------------------------------------------------
(* The environment of the event bus: what is registered and emitted.        *)

EventNames == {"a", "b"} \cup ObjectPrototypeKeys
Handlers ==
    {Handler("args", id, "-") : id \in {"h1", "h2"}}
        \cup {Handler("emit", "he", n) : n \in {"a", "b"}}
        \cup {Handler("on", "ho", n) : n \in {"b"}}
        \cup {Handler("throw", "ht", "-")}
Values == {Str(<<"x">>), Str(<<"y">>)}
RECURSIVE SeqsUpTo(_, _)
SeqsUpTo(S, n) ==
    IF n = 0 THEN {<<>>}
    ELSE LET shorter == SeqsUpTo(S, n - 1)
         IN  shorter \cup {Append(s, x) : s \in {t \in shorter : Len(t) = n - 1}, x \in S}
ArgLists == SeqsUpTo(Values, MaxArgs)

\* The state a call starts from, with an empty trace.
Start ==
    [events |-> events, managers |-> managers, pending |-> pending, systems |-> systems,
     tr |-> <<>>]

\* The on calls of a trace, in order, applied to the history of first calls.
RECURSIVE RecordFirstOn(_, _)
RecordFirstOn(first, tr) ==
    IF tr = <<>> THEN first
    ELSE LET x == Head(tr)
             f == IF x.e = "call" /\ x.op = "on" /\ x.name \notin DOMAIN first
                  THEN Put(first, x.name, x.action)
                  ELSE first
         IN  RecordFirstOn(f, Tail(tr))

\* The add calls of a trace that pass a value with a name, in order, applied
\* to the history of latest adds (per manager and name).
RECURSIVE RecordLastAdd(_, _)
RecordLastAdd(latest, tr) ==
    IF tr = <<>> THEN latest
    ELSE LET x == Head(tr)
             named == /\ x.e = "call" /\ x.op = "add"
                      /\ ~Nullish(x.command) /\ Prop(x.command, "name") # Undefined
             l == IF named
                  THEN Put(latest, <<x.mgr, x.command.name.parts>>, x.command)
                  ELSE latest
         IN  RecordLastAdd(l, Tail(tr))

\* The play calls made so far, and of the URLs handed to them, in order:
\* those answered with 'Added: <url>', those shifted out of play_queue and
\* those handed to connection.play.
NoPlays == [plays |-> 0, accepted |-> <<>>, taken |-> <<>>, streamed |-> <<>>]
Called(j, call) == IF call.op = "play" THEN [j EXCEPT !.plays = @ + 1] ELSE j
RECURSIVE RecordJournal(_, _)
RecordJournal(j, tr) ==
    IF tr = <<>> THEN j
    ELSE LET x == Head(tr)
             added == /\ x.e = "reply" /\ x.text.t = "string"
                      /\ x.text.parts # <<>> /\ Head(x.text.parts) = "Added: "
             n == CASE added -> [j EXCEPT !.accepted = Append(@, Str(Tail(x.text.parts)))]
                    [] x.e = "shift" -> [j EXCEPT !.taken = Append(@, x.url)]
                    [] x.e = "play" -> [j EXCEPT !.streamed = Append(@, x.audio.url)]
                    [] OTHER -> j
         IN  RecordJournal(n, Tail(tr))

NoCall == [op |-> "none", tr |-> <<>>, out |-> [k |-> "return", v |-> Undefined],
           preEvents |-> EmptyTable, preFirst |-> {}, preManagers |-> EmptyTable,
           preSystems |-> EmptyTable]

Init ==
    /\ events = EmptyTable
    /\ managers = EmptyTable
    /\ pending = {}
    /\ systems = EmptyTable
    /\ last = NoCall
    /\ firstOn = EmptyTable
    /\ lastAdd = EmptyTable
    /\ journal = NoPlays

\* The end of a call: the program state it left, and the record of the call.
Finish(call, r) ==
    /\ events' = r.st.events
    /\ managers' = r.st.managers
    /\ pending' = r.st.pending
    /\ systems' = r.st.systems
    /\ last' = call @@ [tr |-> r.st.tr, out |-> r.out, preEvents |-> events,
                        preFirst |-> DOMAIN firstOn, preManagers |-> managers,
                        preSystems |-> systems]
    /\ firstOn' = RecordFirstOn(firstOn, r.st.tr)
    /\ lastAdd' = RecordLastAdd(lastAdd, r.st.tr)
    /\ journal' = RecordJournal(Called(journal, call), r.st.tr)

\* The environment calls events.on(name, action).
CallOn ==
    \E name \in EventNames, action \in Handlers :
        Finish([op |-> "on", name |-> name, action |-> action],
               on(Start, name, action, 0))

\* The environment calls events.emit(name, ...args).
CallEmit ==
    \E name \in EventNames, args \in ArgLists :
        Finish([op |-> "emit", name |-> name, args |-> args],
               emit(Start, name, args, 0))

Next == CallOn \/ CallEmit

Spec == Init /\ [][Next]_vars

-----------------------------------------------------------------------------
(* The environment of a CommandManager: construction, the commands added,   *)
(* the messages parsed, directly and over the bus.                          *)

bang == <<"!">>
ping == <<"p", "i", "n", "g">>
nope == <<"n", "o", "p", "e">>
hello == <<"h", "e", "l", "l", "o">>
world == <<"w", "o", "r", "l", "d">>
play == <<"p", "l", "a", "y">>

ManagerIds == {"m1"}
Prefixes == {bang, <<"c", "b", "!">>}
CommandNames == {ping, toStringChars}
Callables ==
    {Callable("reply", Undefined),
     Callable("throw", ErrorObj("Error", "boom")),
     Callable("throw", Null)}
Commands ==
    {Command(Str(n), c) : n \in CommandNames, c \in Callables}
        \cup {Command(Undefined, Callable("reply", Undefined))}

\* The commands directory: the module each file gives when imported.
\* ping.js exports a Command, notes.js has no default export, null.js
\* exports null, fn.js exports a function declared as fn.
Files == {"ping.js", "notes.js", "null.js", "fn.js"}
fn == <<"f", "n">>
ModuleOf(file) ==
    CASE file = "ping.js" ->
            [t |-> "module", default |-> Command(Str(ping), Callable("send", Undefined))]
      [] file = "notes.js" -> [t |-> "module", default |-> Undefined]
      [] file = "null.js" -> [t |-> "module", default |-> Null]
      [] file = "fn.js" -> [t |-> "module", default |-> [t |-> "function", name |-> Str(fn)]]
\* The directories: how the configuration names one (with the separator at
\* its end or without) and what readdirSync lists in it.
Root == <<"/", "b">>
Directories ==
    {[commands_dir |-> <<"c", "/">>, files |-> {}],
     [commands_dir |-> <<"c", "/">>, files |-> {"ping.js", "notes.js", "null.js"}],
     [commands_dir |-> <<"d", "/">>, files |-> {"fn.js"}],
     [commands_dir |-> <<"c">>, files |-> {"ping.js"}]}

\* The texts: an optional prefix, a name and words, each word after a gap of
\* blanks.
Words == {hello, world}
WordLists == SeqsUpTo(Words, MaxArgs)
Gaps == {<<" ">>, <<" ", " ">>}
RECURSIVE JoinWords(_, _)
JoinWords(words, gap) ==
    IF words = <<>> THEN <<>> ELSE gap \o Head(words) \o JoinWords(Tail(words), gap)
Text(prefix, name, words, gap) == prefix \o name \o JoinWords(words, gap)
Contents ==
    {Text(p, n, <<>>, <<" ">>) : p \in {<<>>, <<"?">>} \cup Prefixes,
                                n \in CommandNames \cup {nope}}
        \cup {Text(p, play, <<>>, <<" ">>) : p \in Prefixes}
        \cup {Text(p, ping, ws, g) : p \in Prefixes, ws \in WordLists, g \in Gaps}
Messages ==
    {Message(c, FALSE) : c \in Contents}
        \cup {Message(Text(p, ping, <<>>, <<" ">>), TRUE) : p \in {<<>>} \cup Prefixes}

\* What is emitted over the bus: a command to add, a message to parse, a
\* request for the prefix.
CommandEvents == {"commands::parse", "commands::add", "commands::get-prefix"}
BusArgLists ==
    {<<>>}
        \cup {<<c>> : c \in {Command(Str(ping), Callable("reply", Undefined)),
                            Command(Str(toStringChars),
                                    Callable("throw", ErrorObj("Error", "boom")))}}
        \cup {<<Message(Text(p, ping, <<>>, <<" ">>), FALSE)>> : p \in Prefixes}

\* new CommandManager(events, command_config)
Construct ==
    \E m \in ManagerIds \ DOMAIN managers, prefix \in Prefixes, dir \in Directories :
        Finish([op |-> "construct", mgr |-> m],
               CommandManager_constructor(Start, m,
                    [prefix |-> prefix, root |-> Root, commands_dir |-> dir.commands_dir,
                     files |-> dir.files]))

\* An import() of build_commands settles and its callback runs.
ImportSettled ==
    \E p \in {q \in pending : "file" \in DOMAIN q} :
        Finish([op |-> "import", mgr |-> p.mgr, file |-> p.file, found |-> Resolves(p.dir)],
               import_settled([Start EXCEPT !.pending = @ \ {p}], p, ModuleOf(p.file)))

\* The environment calls manager.add(command).
CallAdd ==
    \E m \in DOMAIN managers, command \in Commands :
        Finish([op |-> "add", mgr |-> m, command |-> command],
               add(Start, m, command))

\* The environment calls manager.parse(message).
CallParse ==
    \E m \in DOMAIN managers, message \in Messages :
        Finish([op |-> "parse", mgr |-> m, message |-> message],
               parse(Start, m, message))

\* The environment emits one of the CommandManager's events.
BusEmit ==
    \E name \in CommandEvents, args \in BusArgLists :
        Finish([op |-> "emit", name |-> name, args |-> args],
               emit(Start, name, args, 0))

NextCommands == Construct \/ ImportSettled \/ CallAdd \/ CallParse \/ BusEmit

SpecCommands == Init /\ [][NextCommands]_vars

-----------------------------------------------------------------------------
(* The environment of plugin Systems: the serializer binds its event, the   *)
(* plugins are constructed, saved and restored, and names are probed.       *)

SystemIds == {"s1"}
PluginName == "ExampleName"
SystemEventNames == {"serialize::register", "a"} \cup ObjectPrototypeKeys
SystemHandlers == {Handler("args", "h1", "-"), Handler("throw", "ht", "-")}
\* What is read back from a file and handed to deserialize.
Saved == {Object([state |-> Number(3)])}

\* The environment calls events.on(name, action).
SystemOn ==
    \E name \in SystemEventNames, action \in SystemHandlers :
        Finish([op |-> "on", name |-> name, action |-> action],
               on(Start, name, action, 0))

\* The environment calls events.emit(name), the serializer's event excepted:
\* that one is emitted by Systems only.
SystemEmit ==
    \E name \in SystemEventNames \ {"serialize::register"} :
        Finish([op |-> "emit", name |-> name, args |-> <<>>],
               emit(Start, name, <<>>, 0))

\* The environment calls events.check(name).
CallCheck ==
    \E name \in SystemEventNames :
        Finish([op |-> "check", name |-> name],
               Return(Start, Boolean(check(events, name))))

\* new ExamplePlugin(events), with either value of the serialize flag.
NewSystem ==
    \E s \in SystemIds \ DOMAIN systems, flag \in BOOLEAN :
        Finish([op |-> "new", sys |-> s, serialize |-> flag],
               Plugin_constructor(Start, s, PluginName, flag))

\* The environment calls system.serialize().
CallSerialize ==
    \E s \in DOMAIN systems :
        Finish([op |-> "serialize", sys |-> s], serialize(Start, s))

\* The environment calls system.deserialize(obj).
CallDeserialize ==
    \E s \in DOMAIN systems, obj \in Saved :
        Finish([op |-> "deserialize", sys |-> s, obj |-> obj], deserialize(Start, s, obj))

NextSystem ==
    SystemOn \/ SystemEmit \/ CallCheck \/ NewSystem \/ CallSerialize \/ CallDeserialize

SpecSystem == Init /\ [][NextSystem]_vars

\* The scheduling of the imports: a promise that is pending is settled
\* sooner or later by the runtime.
FairSpecCommands == SpecCommands /\ WF_vars(ImportSettled)

-----------------------------------------------------------------------------
(* The environment of an asynchronous command: the Youtube plugin adds      *)
(* 'play', messages name it, and what it started fails later.               *)

\* new Command('play', 'Queues a video.', async (events, message, query_or_url) => ...)
PlayCommand == Command(Str(play), Callable("async", ErrorObj("Error", "late")))

\* The Youtube constructor: events.emit('commands::add', new Command('play', ...)).
AddPlay ==
    Finish([op |-> "emit", name |-> "commands::add", args |-> <<PlayCommand>>],
           emit(Start, "commands::add", <<PlayCommand>>, 0))

\* An async action fails after its call has returned: its promise is
\* rejected, and nobody handles the rejection.
ActionRejected ==
    \E p \in {q \in pending : "action" \in DOMAIN q} :
        Finish([op |-> "rejection", message |-> p.message],
               Raise([Start EXCEPT !.pending = @ \ {p}], p.action.thrown))

NextAsync == Construct \/ AddPlay \/ CallParse \/ ActionRejected

SpecAsync == Init /\ [][NextAsync]_vars

-----------------------------------------------------------------------------
(* The tokenizer of parse on its own: every text over a small alphabet with *)
(* a blank and a tab, behind the prefix.                                    *)

Alphabet == {"a", " ", "\t"}
Texts == SeqsUpTo(Alphabet, MaxText)

\* const args = message.content.slice(this.prefix.length).trim().split(/ +/)
tokenize(content, prefix) == split(trim(slice(content, Len(prefix))))

\* parse's first statement after its guard, applied to prefix + text;
\* command is what args.shift() takes, args what it leaves.
Tokenize ==
    \E text \in Texts :
        /\ last' = [op |-> "tokenize", text |-> text,
                    command |-> Head(tokenize(bang \o text, bang)),
                    args |-> Tail(tokenize(bang \o text, bang)),
                    tr |-> <<>>, out |-> [k |-> "return", v |-> Undefined]]
        /\ UNCHANGED <<events, managers, pending, systems, firstOn, lastAdd, journal>>

NextTokens == Tokenize

SpecTokens == Init /\ [][NextTokens]_vars

-----------------------------------------------------------------------------
(* The environment of messages without a command name: a Command may be     *)
(* named by the empty string, and a message may hold the prefix alone.      *)

\* new Command('', ...): a name that is the empty string.
EmptyNamed == Command(Str(<<>>), Callable("reply", Undefined))

\* The texts without a command name: the prefix alone, or followed by
\* white space only.
BareContents ==
    {p \o w : p \in Prefixes, w \in {<<>>, <<" ">>, <<" ", " ">>, <<"\t">>}}

\* The environment calls manager.add(new Command('', ...)).
AddEmptyNamed ==
    \E m \in DOMAIN managers :
        Finish([op |-> "add", mgr |-> m, command |-> EmptyNamed],
               add(Start, m, EmptyNamed))

\* The environment calls manager.parse(message) with such a text.
ParseBare ==
    \E m \in DOMAIN managers, content \in BareContents :
        Finish([op |-> "parse", mgr |-> m, message |-> Message(content, FALSE)],
               parse(Start, m, Message(content, FALSE)))

NextBare == Construct \/ CallAdd \/ AddEmptyNamed \/ ParseBare

SpecBare == Init /\ [][NextBare]_vars

-----------------------------------------------------------------------------
(* The environment of two CommandManagers on one bus: both are constructed  *)
(* with the same Events object, in either order.                            *)

TwoManagers == {"m1", "m2"}
\* What the commands directory of either manager lists.
TwoDirectories ==
    {[commands_dir |-> <<"c", "/">>, files |-> fs] : fs \in {{}, {"ping.js"}}}

\* new CommandManager(events, command_config), for either manager.
ConstructOnSameBus ==
    \E m \in TwoManagers \ DOMAIN managers, prefix \in Prefixes, dir \in TwoDirectories :
        Finish([op |-> "construct", mgr |-> m],
               CommandManager_constructor(Start, m,
                    [prefix |-> prefix, root |-> Root, commands_dir |-> dir.commands_dir,
                     files |-> dir.files]))

NextTwo == ConstructOnSameBus \/ ImportSettled \/ BusEmit

SpecTwo == Init /\ [][NextTwo]_vars

-----------------------------------------------------------------------------
(* The environment of the persistence round trip: two plugin Systems, each  *)
(* constructed with the bus or with another Events object, are restored     *)
(* from a file and from each other's snapshot.                              *)

RoundTripIds == {"s1", "s2"}
\* Another Events object: new Events() a second time.
OtherEventsRef == [t |-> "Events", id |-> "other"]

\* new ExamplePlugin(events): super(events, 'ExampleName', false) and the
\* plugin's own fields, with either Events object.
NewSystemOn ==
    \E s \in RoundTripIds \ DOMAIN systems, registry \in {EventsRef, OtherEventsRef} :
        Finish([op |-> "new", sys |-> s, serialize |-> FALSE],
               Plugin_fields_on(System_constructor(Start, SystemRef(s), PluginName, FALSE),
                                s, PluginName, registry))

\* The environment calls t.deserialize(s.serialize()).
RoundTrip ==
    \E s \in DOMAIN systems, t \in DOMAIN systems :
        Finish([op |-> "roundtrip", from |-> s, sys |-> t],
               deserialize(Start, t, serialize(Start, s).out.v))

NextRoundTrip == NewSystemOn \/ CallSerialize \/ CallDeserialize \/ RoundTrip

SpecRoundTrip == Init /\ [][NextRoundTrip]_vars

-----------------------------------------------------------------------------
(* The environment of the media player: members send 'play' messages, the   *)
(* voice channel is joined or the join fails, audio streams end and timers  *)
(* fire.                                                                    *)

\* Most play calls made in a behaviour.
MaxPlays == 3

General == VoiceChannel("general", TRUE)
Locked == VoiceChannel("locked", FALSE)
\* Who sends a 'play' message: nobody of the guild (a direct message), a
\* member in no voice channel, in one the bot cannot join, in one it can.
Members == {Null, GuildMember(Null), GuildMember(Locked), GuildMember(General)}
\* The first word after 'play': none, or a URL.
Queries == {Undefined} \cup ValidUrls \cup InvalidUrls

\* new Youtube(events): super(events, 'ExampleName', false), the fields,
\* events.emit('commands::add', new Command('play', ...)).
NewYoutube ==
    /\ Youtube \notin DOMAIN systems
    /\ Finish([op |-> "new", sys |-> Youtube, serialize |-> FALSE],
              Statement(emit(Youtube_fields(System_constructor(Start, SystemRef(Youtube),
                                                               "ExampleName", FALSE)).st,
                             "commands::add", <<PlayCommand>>, 0)))

\* A 'play' message is parsed: the command's action runs up to its first
\* await or to its return. Messages are numbered as they arrive.
Play ==
    /\ Youtube \in DOMAIN systems
    /\ journal.plays < MaxPlays
    /\ \E member \in Members, query_or_url \in Queries :
            Finish([op |-> "play", message |-> PlayMessage(journal.plays + 1, member),
                    query_or_url |-> query_or_url],
                   play_action(Start, PlayMessage(journal.plays + 1, member), query_or_url))

\* channel.join() is fulfilled: stream_audio goes on after its await.
Joined ==
    \E p \in Joins(pending) :
        Finish([op |-> "joined", join |-> p],
               stream_audio_joined([Start EXCEPT !.pending = @ \ {p}], p))

\* channel.join() is rejected: stream_audio ends there, and nobody handles
\* the rejection.
JoinRejected ==
    \E p \in Joins(pending) :
        Finish([op |-> "join-rejected", join |-> p],
               Raise([Start EXCEPT !.pending = @ \ {p}], ErrorObj("Error", "join failed")))

\* The audio being played has been read to its end: the 'end' listener runs.
AudioEnd ==
    \E p \in Audios(pending) :
        Finish([op |-> "end", audio |-> p],
               stream_audio([Start EXCEPT !.pending = @ \ {p}], p.message, p.channel))

\* A timer fires: the callback of set_leave_timer runs.
TimerFires ==
    \E p \in Timers(pending) :
        Finish([op |-> "timer", timer |-> p],
               leave_channel([Start EXCEPT !.pending = @ \ {p}], p.channel))

NextPlayer == NewYoutube \/ Play \/ Joined \/ JoinRejected \/ AudioEnd \/ TimerFires

SpecPlayer == Init /\ [][NextPlayer]_vars

\* The player where every join is fulfilled, every audio stream ends and
\* every timer fires.
NextPlayerJoined == NewYoutube \/ Play \/ Joined \/ AudioEnd \/ TimerFires

FairSpecPlayer ==
    /\ Init /\ [][NextPlayerJoined]_vars
    /\ WF_vars(Joined) /\ WF_vars(AudioEnd) /\ WF_vars(TimerFires)

-----------------------------------------------------------------------------
(* Reading a trace.                                                         *)

\* The places of a trace whose entry satisfies a test.
Entered(tr) == {i \in DOMAIN tr : tr[i].e = "enter"}
EnteredAt(tr, depth) == {i \in Entered(tr) : tr[i].depth = depth}
Logged(tr, level) == {i \in DOMAIN tr : tr[i].e = "logger" /\ tr[i].level = level}
LoggedAny(tr) == {i \in DOMAIN tr : tr[i].e = "logger"}
Calls(tr, op) == {i \in DOMAIN tr : tr[i].e = "call" /\ tr[i].op = op}
Dones(tr, op) == {i \in DOMAIN tr : tr[i].e = "done" /\ tr[i].op = op}
Actions(tr) == {i \in DOMAIN tr : tr[i].e = "action"}
Replies(tr) == {i \in DOMAIN tr : tr[i].e \in {"reply", "send"}}

-----------------------------------------------------------------------------
(* The event bus: claims C1 to C4, checked under Spec.                      *)

\* C1: at most one handler per event name and the first registration wins.
\* For every name an on call was made for, the handler bound to it is the
\* handler of the first on call; a later on call for the name leaves the
\* bindings unchanged, reports one diagnostic and does not raise; emitting
\* the name invokes only the first handler.
C1_FirstRegistrationWins ==
    /\ \A n \in DOMAIN firstOn :
            n \in DOMAIN events /\ events[n] = Event(n, firstOn[n])
    /\ (last.op = "on" /\ last.name \in last.preFirst) =>
            /\ events = last.preEvents
            /\ Cardinality(LoggedAny(last.tr)) = 1
            /\ Cardinality(Logged(last.tr, "warn")) = 1
            /\ last.out.k = "return"
    /\ (last.op = "emit" /\ last.name \in last.preFirst) =>
            /\ Cardinality(EnteredAt(last.tr, 0)) = 1
            /\ \A i \in EnteredAt(last.tr, 0) : last.tr[i].action = firstOn[last.name]

\* C2: for distinct event names a and b that both have a handler bound,
\* emit(a, ...) invokes a's handler exactly once and no handler of b: the
\* emit call itself dispatches to exactly one handler, the one bound to a,
\* and unless that handler itself emits, no other handler runs at all.
C2_EmitInvokesOnlyItsHandler ==
    \A a \in DOMAIN last.preEvents, b \in DOMAIN last.preEvents :
        (last.op = "emit" /\ last.name = a /\ a # b) =>
            /\ Cardinality(EnteredAt(last.tr, 0)) = 1
            /\ \A i \in EnteredAt(last.tr, 0) :
                    last.tr[i].action = last.preEvents[a].action
            /\ last.preEvents[a].action.kind # "emit" =>
                    Cardinality(Entered(last.tr)) = 1

\* C2's case: a and b are bound to different handlers and a is emitted.
C2_Witness ==
    /\ last.op = "emit" /\ last.name = "a"
    /\ {"a", "b"} \subseteq DOMAIN last.preEvents
    /\ last.preEvents["a"].action # last.preEvents["b"].action
    /\ last.preEvents["b"].action.kind = "args"
    /\ Cardinality(Entered(last.tr)) = 1

\* C3: emitting a name for which no on call was ever made returns no
\* result, logs exactly one diagnostic, invokes no handler and does not raise.
C3_EmitUnregisteredIsSoft ==
    (last.op = "emit" /\ last.name \notin last.preFirst) =>
        /\ last.out = [k |-> "return", v |-> Undefined]
        /\ Cardinality(LoggedAny(last.tr)) = 1
        /\ Entered(last.tr) = {}
        /\ events = last.preEvents

\* C4: emit on a bound name is synchronous and transparent. The bound
\* handler is entered exactly once by the call, with the given arguments in
\* the given order; every emit the handler makes is finished before the
\* call ends; the handler's exit is the last thing before the end of the
\* call, and the call ends as the handler did: it returns the handler's
\* return value (a handler that returns its arguments gives them back).
C4_EmitSynchronousTransparent ==
    (last.op = "emit" /\ last.name \in DOMAIN last.preEvents) =>
        LET tr == last.tr
            n == Len(tr)
            bound == last.preEvents[last.name].action
        IN  /\ Cardinality(EnteredAt(tr, 0)) = 1
            /\ tr[2] = [e |-> "enter", action |-> bound, args |-> last.args, depth |-> 0]
            /\ Cardinality(Calls(tr, "emit")) = Cardinality(Dones(tr, "emit"))
            /\ tr[n - 1] = [e |-> "exit", action |-> bound, out |-> last.out, depth |-> 0]
            /\ tr[n].e = "done" /\ tr[n].depth = 0 /\ tr[n].out = last.out
            /\ \A i \in 3 .. (n - 2) : tr[i].e = "logger" \/ tr[i].depth > 0
            /\ (bound.kind = "args") => last.out = [k |-> "return", v |-> Array(last.args)]

\* C4's case: a handler that emits another bound name is emitted with two
\* different arguments and the nested handler's value comes back.
C4_Witness ==
    /\ last.op = "emit" /\ last.name \in DOMAIN last.preEvents
    /\ last.preEvents[last.name].action.kind = "emit"
    /\ Len(last.args) = 2 /\ last.args[1] # last.args[2]
    /\ Cardinality(Entered(last.tr)) = 2
    /\ last.out = [k |-> "return", v |-> Array(last.args)]

-----------------------------------------------------------------------------
(* The command registry: claims C5 to C10, checked under SpecCommands.      *)

\* The parse of a message by a human author whose text is the manager's
\* prefix, then name, then the words each after a gap of blanks.
ParsedText(name, words, gap) ==
    /\ last.op = "parse"
    /\ last.message.bot = FALSE
    /\ last.message.content =
            Text(last.preManagers[last.mgr].prefix, name, words, gap)
Registered(name) == name \in DOMAIN last.preManagers[last.mgr].commands

\* C5: when the action of the resolved Command raises during parse, parse
\* logs the fault, sends exactly one reply that holds the fault's description,
\* does not raise to its caller, and leaves the commands and the prefix as
\* they were (so that later parse calls find what they found before).
C5_ActionFaultContained ==
    \A i \in Actions(last.tr) :
        (last.op = "parse" /\ last.tr[i].command.action.kind = "throw") =>
            LET thrown == last.tr[i].command.action.thrown
            IN  /\ last.out = [k |-> "return", v |-> Undefined]
                /\ Cardinality(Logged(last.tr, "error")) = 1
                /\ Cardinality(Replies(last.tr)) = 1
                /\ \A j \in Replies(last.tr) :
                        /\ last.tr[j].e = "reply"
                        /\ last.tr[j].message = last.message
                        /\ thrown.t = "Error" =>
                                \E k \in DOMAIN last.tr[j].text.parts :
                                    last.tr[j].text.parts[k] = thrown.message
                /\ managers = last.preManagers

\* C6: parse of the prefix followed by a name no Command was ever added
\* under does nothing that can be observed: no action, no reply or send,
\* nothing logged, the registry unchanged, nothing raised.
C6_UnknownCommandSilent ==
    \A name \in CommandNames \cup {nope} :
        (ParsedText(name, <<>>, <<" ">>) /\ <<last.mgr, name>> \notin DOMAIN lastAdd) =>
            /\ last.tr = <<>>
            /\ last.out = [k |-> "return", v |-> Undefined]
            /\ managers = last.preManagers
            /\ events = last.preEvents

\* The text s begins with the characters of p, one by one.
BeginsWith(s, p) == Len(p) <= Len(s) /\ \A i \in 1 .. Len(p) : s[i] = p[i]

\* C7: parse of a message whose text does not start with the prefix, or
\* whose author is a bot, does nothing: no action is invoked, no reply is
\* sent, nothing is logged, commands and prefix are unchanged.
C7_NonCommandIgnored ==
    (/\ last.op = "parse"
     /\ \/ ~BeginsWith(last.message.content, last.preManagers[last.mgr].prefix)
        \/ last.message.bot) =>
        /\ last.tr = <<>>
        /\ last.out = [k |-> "return", v |-> Undefined]
        /\ managers = last.preManagers
        /\ events = last.preEvents

\* C7's case: a registered name is sent behind a wrong prefix of the
\* prefix's length.
C7_Witness ==
    /\ last.op = "parse"
    /\ last.message = Message(<<"?">> \o ping, FALSE)
    /\ last.preManagers[last.mgr].prefix = bang
    /\ Registered(ping)

\* C8: parse of exactly the prefix followed by the name of a registered
\* Command invokes that Command's action exactly once, with the events
\* object, the message and no further argument, and no other action.
C8_ExactNameDispatch ==
    \A name \in CommandNames :
        (ParsedText(name, <<>>, <<" ">>) /\ Registered(name)) =>
            /\ Cardinality(Actions(last.tr)) = 1
            /\ \A i \in Actions(last.tr) :
                    last.tr[i] = [e |-> "action",
                                  command |-> last.preManagers[last.mgr].commands[name],
                                  events |-> EventsRef,
                                  message |-> last.message,
                                  args |-> <<>>]

\* C8's case: two Commands are registered and one of them is named.
C8_Witness ==
    /\ ParsedText(ping, <<>>, <<" ">>)
    /\ Registered(ping) /\ Registered(toStringChars)
    /\ Cardinality(Actions(last.tr)) = 1

\* C9: the words after the command name, separated by blanks, are the
\* positional arguments of the action, in order, and the command name is
\* not among them.
C9_WordsAreArguments ==
    \A name \in CommandNames, words \in WordLists, gap \in Gaps :
        (ParsedText(name, words, gap) /\ Registered(name)) =>
            /\ Cardinality(Actions(last.tr)) = 1
            /\ \A i \in Actions(last.tr) :
                    /\ last.tr[i].args = [k \in DOMAIN words |-> Str(words[k])]
                    /\ last.tr[i].command = last.preManagers[last.mgr].commands[name]

\* C9's case: "<prefix>ping hello  world", the words two blanks apart.
C9_Witness ==
    /\ ParsedText(ping, <<hello, world>>, <<" ", " ">>)
    /\ Registered(ping)
    /\ \E i \in Actions(last.tr) : last.tr[i].args = <<Str(hello), Str(world)>>

\* C10: last write wins. After any adds, from the directory's imports, from
\* direct calls and from 'commands::add', a manager holds under each name
\* exactly the Command of the latest add call with that name, and names no
\* add call gave hold nothing; a parse of the name invokes that Command.
C10_LastAddWins ==
    /\ \A m \in DOMAIN managers :
            /\ \A n \in DOMAIN managers[m].commands :
                    /\ <<m, n>> \in DOMAIN lastAdd
                    /\ managers[m].commands[n] = lastAdd[<<m, n>>]
            /\ \A n \in CommandNames :
                    <<m, n>> \in DOMAIN lastAdd => n \in DOMAIN managers[m].commands
    /\ \A name \in CommandNames :
            (ParsedText(name, <<>>, <<" ">>) /\ <<last.mgr, name>> \in DOMAIN lastAdd) =>
                /\ Cardinality(Actions(last.tr)) = 1
                /\ \A i \in Actions(last.tr) :
                        last.tr[i].command = lastAdd[<<last.mgr, name>>]

\* C10's case: a Command loaded from the directory is overwritten by one
\* added over the bus.
C10_Witness ==
    /\ last.op = "emit" /\ last.name = "commands::add" /\ Len(last.args) = 1
    /\ \E m \in DOMAIN managers :
            /\ ping \in DOMAIN last.preManagers[m].commands
            /\ last.preManagers[m].commands[ping] = ModuleOf("ping.js").default
            /\ managers[m].commands[ping] = last.args[1]
            /\ last.args[1] # ModuleOf("ping.js").default

-----------------------------------------------------------------------------
(* The command registry, continued: claims C11, C14 to C18 and C20.         *)

\* C11: add of a command that lacks a name is rejected: the commands are
\* unchanged, the rejection is logged and add does not raise; a command with
\* a name is held under that name afterwards, the other names as before.
C11_AddRejectsNameless ==
    (last.op = "add" /\ last.command.t = "Command") =>
        LET before == last.preManagers[last.mgr].commands
            after == managers[last.mgr].commands
        IN  IF last.command.name = Undefined
            THEN /\ managers = last.preManagers
                 /\ Cardinality(LoggedAny(last.tr)) >= 1
                 /\ last.out = [k |-> "return", v |-> Undefined]
            ELSE /\ after = Put(before, last.command.name.parts, last.command)
                 /\ last.out = [k |-> "return", v |-> Undefined]

\* C14: no call of emit and no call of parse raises to its caller, whatever
\* the handlers and actions do and whatever payload a bus request carries.
C14_FaultsContained ==
    last.op \in {"emit", "parse"} => last.out.k = "return"

\* The state the latest call started from, with an empty trace.
Before ==
    [events |-> last.preEvents, managers |-> last.preManagers, pending |-> pending,
     systems |-> last.preSystems, tr |-> <<>>]

\* The latest call, an emit, did what the direct call that ended as r does:
\* it left the same commands, prefix and bindings, between the entry and the
\* exit of the bound closure its trace is the trace of the direct call, it
\* raised what the direct call raised and returned nothing otherwise.
SameEffect(r) ==
    /\ managers = r.st.managers
    /\ events = r.st.events
    /\ SubSeq(last.tr, 3, Len(last.tr) - 2) = r.st.tr
    /\ last.out = Statement(r).out

\* C15: once a CommandManager is constructed on a bus without earlier
\* 'commands::*' bindings, emit('commands::add', c) does what add(c) does,
\* emit('commands::parse', m) does what parse(m) does, and
\* emit('commands::get-prefix') returns the manager's prefix.
C15_BusEqualsDirectCalls ==
    \A m \in DOMAIN last.preManagers :
        (last.op = "emit") =>
            /\ last.name = "commands::add" =>
                    SameEffect(add(Before, m, Arg(last.args, 1)))
            /\ last.name = "commands::parse" =>
                    SameEffect(parse(Before, m, Arg(last.args, 1)))
            /\ last.name = "commands::get-prefix" =>
                    /\ last.out = [k |-> "return", v |-> Str(last.preManagers[m].prefix)]
                    /\ managers = last.preManagers
                    /\ events = last.preEvents

\* C15's case: a message emitted as 'commands::parse' names a registered
\* Command and its action runs.
C15_Witness ==
    /\ last.op = "emit" /\ last.name = "commands::parse" /\ Len(last.args) = 1
    /\ DOMAIN last.preManagers # {}
    /\ Cardinality(Actions(last.tr)) = 1
    /\ Cardinality(Replies(last.tr)) = 1

\* The imports build_commands can start, and the modules among them whose
\* default export is a Command with a name.
Imports ==
    {[mgr |-> m, file |-> f, dir |-> join(Root, d.commands_dir)] :
        m \in ManagerIds, d \in Directories, f \in Files}
WellFormed(module) ==
    /\ module.default.t = "Command"
    /\ module.default.name # Undefined
HoldsDefault(p) ==
    /\ p.mgr \in DOMAIN managers
    /\ Get(managers[p.mgr].commands, ModuleOf(p.file).default.name.parts, {})
            = ModuleOf(p.file).default

\* C16: static loading is progressive. When the constructor returns no
\* command of the directory is registered yet, and a parse that names a
\* command not registered yet is ignored in silence; every import that was
\* started, of a module whose default export is a well-formed Command,
\* leads to that Command being registered under its name.
C16_StaticLoadingProgressive ==
    /\ [](/\ (last.op = "construct" /\ last.out.k = "return") =>
                managers[last.mgr].commands = EmptyTable
          /\ (ParsedText(ping, <<>>, <<" ">>) /\ ~Registered(ping)) =>
                (last.tr = <<>> /\ last.out.k = "return"))
    /\ \A p \in Imports :
            WellFormed(ModuleOf(p.file)) => ((p \in pending) ~> HoldsDefault(p))

\* C17: a module of the directory without a usable default export (none,
\* or one that is not a well-formed Command) is skipped in silence: the
\* commands are unchanged, nothing is logged and nothing is raised.
C17_UnusableModuleSkipped ==
    (last.op = "import" /\ last.found /\ ~WellFormed(ModuleOf(last.file))) =>
        /\ managers = last.preManagers
        /\ LoggedAny(last.tr) = {}
        /\ last.out = [k |-> "return", v |-> Undefined]

\* C18 is checked under SpecAsync.
\* C18: parse does not wait for an async action. The parse that dispatches
\* one returns normally with the action's promise still pending, logs no
\* error and sends no reply; when the action fails later, the failure
\* reaches nobody: no error is logged for it and no reply is sent.
C18_ParseDoesNotAwait ==
    /\ \A i \in Actions(last.tr) :
            (last.op = "parse" /\ last.tr[i].command.action.kind = "async") =>
                /\ last.out = [k |-> "return", v |-> Undefined]
                /\ Logged(last.tr, "error") = {}
                /\ Replies(last.tr) = {}
                /\ [action |-> last.tr[i].command.action, message |-> last.message]
                        \in pending
    /\ last.op = "rejection" =>
            /\ Logged(last.tr, "error") = {}
            /\ Replies(last.tr) = {}
            /\ last.out.k = "raise"

\* C18's case: 'play' was dispatched by a parse, and later it fails.
C18_Witness ==
    /\ last.op = "rejection"
    /\ last.message.content = Text(bang, play, <<>>, <<" ">>)
    /\ last.out.v = ErrorObj("Error", "late")

\* The maximal runs of characters of s that are not white space, in order.
RECURSIVE Runs(_, _)
Runs(s, run) ==
    IF s = <<>> THEN (IF run = <<>> THEN <<>> ELSE <<run>>)
    ELSE IF Head(s) \in WhiteSpace
         THEN (IF run = <<>> THEN <<>> ELSE <<run>>) \o Runs(Tail(s), <<>>)
         ELSE Runs(Tail(s), Append(run, Head(s)))

\* C20 is checked under SpecTokens.
\* C20: parse tokenizes what follows the prefix on runs of white space: the
\* command name is the first maximal run of characters that are not white
\* space, the arguments are the remaining such runs in order, and no
\* argument is empty or holds white space.
C20_TokensAreWhitespaceRuns ==
    (last.op = "tokenize" /\ Runs(last.text, <<>>) # <<>>) =>
        /\ last.command = Head(Runs(last.text, <<>>))
        /\ last.args = Tail(Runs(last.text, <<>>))
        /\ \A i \in DOMAIN last.args :
                /\ last.args[i] # <<>>
                /\ \A j \in DOMAIN last.args[i] : last.args[i][j] \notin WhiteSpace

-----------------------------------------------------------------------------
(* Plugin Systems: claims C12, C13 and C19, checked under SpecSystem.       *)

\* The emit calls of a trace that name the serializer's event.
RegisterEmits(tr) == {i \in Calls(tr, "emit") : tr[i].name = "serialize::register"}

C13_SnapshotWithoutRegistry ==
    last.op = "serialize" =>
        LET this == last.preSystems[last.sys]
            clone == last.out.v.fields
        IN  /\ last.out.k = "return"
            /\ \A k \in DOMAIN this :
                    this[k] # EventsRef => k \in DOMAIN clone /\ clone[k] = this[k]
            /\ \A k \in DOMAIN clone : clone[k] # EventsRef
            /\ systems = last.preSystems

\* C19: check(name) returns true exactly when an earlier on call bound a
\* handler to the name, and leaves the bindings as they were.
C19_CheckIsExistenceProbe ==
    last.op = "check" =>
        /\ last.out = [k |-> "return", v |-> Boolean(last.name \in DOMAIN last.preEvents)]
        /\ events = last.preEvents

-----------------------------------------------------------------------------
(* The command registry, continued: claims C21, C22 and C28.                *)

\* The text s is the prefix p followed by white space only (or by nothing).
PrefixOnly(s, p) ==
    /\ BeginsWith(s, p)
    /\ \A i \in (Len(p) + 1) .. Len(s) : s[i] \in WhiteSpace

\* C21 is checked under SpecBare.
\* C21: a message without a command name is ignored: when the text is the
\* prefix alone, or the prefix followed by white space only, parse invokes
\* no action and sends no reply, whatever names add has accepted.
C21_AbsentNameIgnored ==
    (/\ last.op = "parse"
     /\ PrefixOnly(last.message.content, last.preManagers[last.mgr].prefix)) =>
        /\ Actions(last.tr) = {}
        /\ Replies(last.tr) = {}

\* C22: the registry never removes a command. Every step of the program, an
\* add (accepted or rejected), a parse (of any message, its action raising
\* or not), an import settling or an emit, leaves every manager in place and
\* every name registered with it before the step still registered after it.
C22_NamesOnlyGrow ==
    [][\A m \in DOMAIN managers :
            /\ m \in DOMAIN managers'
            /\ DOMAIN managers[m].commands \subseteq DOMAIN managers'[m].commands]_vars

\* C22's case: a parse whose action raised, the names all still registered.
C22_Witness ==
    /\ last.op = "parse"
    /\ \E i \in Actions(last.tr) : last.tr[i].command.action.kind = "throw"
    /\ DOMAIN managers[last.mgr].commands = CommandNames
    /\ DOMAIN last.preManagers[last.mgr].commands = CommandNames

\* The manager constructed first: the one whose constructor made the first
\* on call for 'commands::parse'.
FirstManager == firstOn["commands::parse"].id

\* C28 is checked under SpecTwo.
\* C28: with two CommandManagers constructed on one Events object, the three
\* 'commands::*' events are bound to closures of the manager constructed
\* first; an emit of 'commands::add' or 'commands::parse' does what the
\* direct call on the first manager does, an emit of 'commands::get-prefix'
\* returns the first manager's prefix, and no emit changes the commands or
\* the prefix of the second manager.
C28_BusStaysWithFirstManager ==
    (DOMAIN managers = TwoManagers) =>
        /\ \A n \in CommandEvents :
                events[n] = Event(n, Handler(n, FirstManager, "-"))
        /\ (last.op = "emit" /\ DOMAIN last.preManagers = TwoManagers) =>
                /\ \A m \in TwoManagers \ {FirstManager} :
                        managers[m] = last.preManagers[m]
                /\ last.name = "commands::add" =>
                        SameEffect(add(Before, FirstManager, Arg(last.args, 1)))
                /\ last.name = "commands::parse" =>
                        SameEffect(parse(Before, FirstManager, Arg(last.args, 1)))
                /\ last.name = "commands::get-prefix" =>
                        last.out = [k |-> "return",
                                    v |-> Str(last.preManagers[FirstManager].prefix)]

\* C28's case: with both managers constructed, the second one first in the
\* program text ("m2" before "m1"), a Command emitted as 'commands::add' is
\* stored by the first manager and the second holds nothing under its name.
C28_Witness ==
    /\ last.op = "emit" /\ last.name = "commands::add" /\ Len(last.args) = 1
    /\ DOMAIN last.preManagers = TwoManagers
    /\ FirstManager = "m2"
    /\ toStringChars \in DOMAIN managers["m2"].commands
    /\ toStringChars \notin DOMAIN last.preManagers["m2"].commands
    /\ toStringChars \notin DOMAIN managers["m1"].commands
    /\ managers["m1"].prefix # managers["m2"].prefix

-----------------------------------------------------------------------------
(* Persistence, continued: claim C29, checked under SpecRoundTrip.          *)

\* The fields of a System other than its reference to the Events object.
DataFields(fields) == DOMAIN fields \ {"events"}

\* C29: the persistence round trip keeps the ownership firewall. After
\* t.deserialize(s.serialize()), for any Systems s and t, each on any Events
\* object, every data field of s has in t the value it has in s, and t's
\* reference to its Events object is the one it had before; for t = s no
\* field of the System has changed.
C29_RoundTripKeepsRegistry ==
    (last.op = "roundtrip") =>
        /\ \A k \in DataFields(last.preSystems[last.from]) :
                systems[last.sys][k] = last.preSystems[last.from][k]
        /\ systems[last.sys].events = last.preSystems[last.sys].events
        /\ last.from = last.sys => systems[last.sys] = last.preSystems[last.sys]

-----------------------------------------------------------------------------
(* The media player: claims C23 to C27, checked under SpecPlayer (C24 under *)
(* FairSpecPlayer).                                                         *)

\* The streaming loops under way: a loop awaits the join of the channel or
\* has an audio stream playing.
Loops == Joins(pending) \cup Audios(pending)
\* The latest call was a play that was answered with 'Added: <url>'.
Accepted ==
    /\ last.op = "play"
    /\ last.query_or_url.t = "string"
    /\ \E i \in Replies(last.tr) :
            last.tr[i].text = Str(<<"Added: ">> \o last.query_or_url.parts)

\* C23: media player mutual exclusion. At most one streaming loop is under
\* way at any time and at most one audio stream is being played, and a loop
\* is under way only in state 'isPlaying'; a play accepted while the state is
\* 'isPlaying' appends its URL to play_queue, replies 'Added: <url>' and does
\* nothing else.
C23_OneStreamingLoop ==
    /\ Cardinality(Loops) <= 1
    /\ Cardinality(Audios(pending)) <= 1
    /\ Loops # {} => systems[Youtube].state = "isPlaying"
    /\ (Accepted /\ last.preSystems[Youtube].state = "isPlaying") =>
            /\ systems[Youtube] =
                    [last.preSystems[Youtube] EXCEPT !.play_queue = Append(@, last.query_or_url)]
            /\ last.tr = <<[e |-> "reply", message |-> last.message,
                            text |-> Str(<<"Added: ">> \o last.query_or_url.parts)]>>

\* C23's case: a play is accepted while an audio stream is being played.
C23_Witness ==
    /\ Accepted
    /\ last.preSystems[Youtube].state = "isPlaying"
    /\ Audios(pending) # {}
    /\ Len(systems[Youtube].play_queue) = 2

\* s is the beginning of t.
IsPrefix(s, t) == Len(s) <= Len(t) /\ SubSeq(t, 1, Len(s)) = s
\* The URLs of a sequence that find_video gives an audio stream for.
Streamable(urls) == SelectSeq(urls, validateURL)

\* C25: the queue is first in, first out. The URLs taken from play_queue
\* are, in order, the URLs accepted first, each queued URL is taken at most
\* once and what was accepted and not taken yet is the queue; the streams
\* are started in the order the URLs were taken; and a URL is taken only
\* when no loop is under way (a play in state 'idle') or by the 'end' of the
\* audio stream that was being played.
C25_FirstInFirstOut ==
    /\ [](Youtube \in DOMAIN systems =>
            /\ journal.accepted = journal.taken \o systems[Youtube].play_queue
            /\ IsPrefix(journal.streamed, Streamable(journal.taken)))
    /\ [][Len(journal'.taken) > Len(journal.taken) =>
            /\ Len(journal'.taken) = Len(journal.taken) + 1
            /\ \/ Loops = {} /\ last'.op = "play"
               \/ last'.op = "end" /\ Loops = {last'.audio}]_vars

\* C25's case: two different URLs were accepted and the second is taken by
\* the 'end' of the first one's stream, a third one waiting.
C25_Witness ==
    /\ last.op = "end"
    /\ Len(journal.taken) = 2
    /\ journal.taken[1] # journal.taken[2]
    /\ Len(journal.accepted) = 3
    /\ journal.streamed = <<journal.taken[1]>>

\* The latest call was a play that execute_queue or the action turns down:
\* a direct message, no URL, the member in no voice channel, or in one the
\* bot cannot join.
Rejected ==
    /\ last.op = "play"
    /\ \/ last.message.member.t = "null"
       \/ last.query_or_url = Undefined
       \/ last.message.member.voice.channel.t = "null"
       \/ last.message.member.voice.channel.joinable = FALSE
Explanations ==
    {Str(<<"Cannot stream in DMs.">>), Str(<<"Usage: play <url>">>),
     Str(<<"Please join a Voice channel on this Server.">>),
     Str(<<"Cannot join channel: ", Locked.name>>)}

\* C26: a rejected play changes nothing. A play from a direct message,
\* without a URL, from a member in no voice channel or in a channel that is
\* not joinable sends exactly one reply, one of the four explanations, and
\* does nothing else: play_queue, state and connection_timer are what they
\* were, no timer is set or cleared and no join of a channel is started.
C26_RejectedPlayChangesNothing ==
    [][Rejected' =>
            /\ systems' = systems
            /\ pending' = pending
            /\ Len(last'.tr) = 1
            /\ Replies(last'.tr) = {1}
            /\ last'.tr[1].text \in Explanations
            /\ last'.tr[1].message = last'.message]_vars

\* C26's case: with the leave timer pending, a member in a channel the bot
\* cannot join asks for a valid URL.
C26_Witness ==
    /\ Rejected
    /\ last.query_or_url \in ValidUrls
    /\ last.message.member = GuildMember(Locked)
    /\ Timers(pending) # {}
    /\ systems[Youtube].state = "idle"

\* The calls of channel.leave() in a trace.
Leaves(tr) == {i \in DOMAIN tr : tr[i].e = "leave"}

\* C27: the leave timer. At most one timer is pending, and it is the one
\* connection_timer holds; none is pending while a loop awaits the join of
\* the channel or plays an audio stream; the bot leaves the channel only
\* when a timer fires, and then the state is 'idle' and play_queue is empty.
C27_LeaveTimer ==
    /\ Cardinality(Timers(pending)) <= 1
    /\ \A q \in Timers(pending) : q.timer = systems[Youtube].connection_timer
    /\ Loops # {} => Timers(pending) = {}
    /\ Leaves(last.tr) # {} =>
            /\ last.op = "timer"
            /\ last.preSystems[Youtube].state = "idle"
            /\ last.preSystems[Youtube].play_queue = <<>>
            /\ systems[Youtube] = last.preSystems[Youtube]

\* C27's case: the second timer that was set fires (the first was cleared
\* when a play started the loop again) and the bot leaves.
C27_Witness ==
    /\ last.op = "timer"
    /\ Leaves(last.tr) # {}
    /\ last.timer.timer = Timeout(2)
    /\ Len(journal.streamed) = 2

\* The state is 'isPlaying' and nothing is played or about to be.
Stalled ==
    /\ Youtube \in DOMAIN systems
    /\ systems[Youtube].state = "isPlaying"
    /\ Loops = {}

\* C24 is checked under FairSpecPlayer: every join is fulfilled and every
\* audio stream ends.
\* C24: progress of the queue. Every URL that was accepted is eventually
\* taken from play_queue, and as many streams are eventually started as
\* URLs were accepted that find_video gives a stream for, also when a play
\* before was answered with 'Error 01: Invalid video link'; the state does
\* not stay 'isPlaying' with nothing being played.
C24_AcceptedIsStreamed ==
    /\ \A n \in 1 .. MaxPlays :
            (Len(journal.accepted) >= n) ~> (Len(journal.taken) >= n)
    /\ \A n \in 1 .. MaxPlays :
            (Len(Streamable(journal.accepted)) >= n) ~> (Len(journal.streamed) >= n)
    /\ []<>(~Stalled)

====
